---- MODULE Spec2Model ----
(***************************************************************************)
(* Gemini Image Studio: the ImageAnalyzer component                        *)
(* (src/components/ImageAnalyzer.tsx).                                     *)
(*                                                                         *)
(* The component state (React useState cells), the file-decode callbacks,  *)
(* the compose promise (getProcessedImageAsDataUrl) and the analyze and    *)
(* download handlers are modelled as a state machine.                      *)
(*                                                                         *)
(* Number model.                                                           *)
(*  - Strings are sequences of one-character strings, so that formatting   *)
(*    (template literals) and parsing (split / Number) are computed.       *)
(*  - ratioW / ratioH and outputWidth / targetAspectRatio are computed in  *)
(*    IEEE-754 binary64 (53-bit significand, round to nearest even),       *)
(*    because the result is truncated to an integer by the canvas.  A      *)
(*    significand is kept in two limbs, <<hi, lo>> = hi * 2^27 + lo.       *)
(*  - Crop coordinates are handed to drawImage as reals and are never      *)
(*    truncated; they are modelled as exact rationals <<n, d>>.            *)
(*  - Rotations are multiples of 45 degrees; cos and sin are exact in      *)
(*    Z[sqrt 2], a number (p + q * sqrt 2) / 4 being the pair <<p, q>>.    *)
(***************************************************************************)
EXTENDS Integers, Sequences, FiniteSets, TLC

VARIABLES
  selectedFile,         \* useState<File | null>, line 42
  previewUrl,           \* useState<string | null>, line 43: 0 is null, n the n-th object URL
  analysis,             \* line 44
  loading,              \* line 45
  error,                \* line 46
  selectedAspectRatio,  \* line 48
  autoAspectRatio,      \* line 49
  resizeMode,           \* line 50
  imageProperties,      \* line 51
  filters,              \* line 52
  rotation,             \* line 53
  isMirrored,           \* line 54
  customRatios,         \* line 56
  decodes,              \* Image objects of handleFileChange whose load/error event is still to fire
  pending,              \* compose promises whose source image is still loading
  settled,              \* the compose promise the last step settled, with what it delivered
  service,              \* the analyzeImage call in flight (handleAnalyze, line 262)
  newRatio,             \* line 57
  ratioInputError,      \* line 58
  storedRatios          \* localStorage item 'customAnalyzerRatios' (lines 62, 77)

vars == <<selectedFile, previewUrl, analysis, loading, error, selectedAspectRatio,
          autoAspectRatio, resizeMode, imageProperties, filters, rotation, isMirrored,
          customRatios, decodes, pending, settled, service, newRatio, ratioInputError,
          storedRatios>>

\* the state of the custom ratio editor
ratioVars == <<newRatio, ratioInputError, storedRatios>>

-----------------------------------------------------------------------------
(* Bounds *)

\* source images of the pipeline specification have sides 1..MaxDim (plus SampleSizes)
MaxDim == 4
\* files chosen in one behaviour of the component specification
MaxSelect == 2
\* compose promises in flight at once
MaxPending == 1

-----------------------------------------------------------------------------
(* Strings *)

Digits == <<"0", "1", "2", "3", "4", "5", "6", "7", "8", "9">>

IsDigit(c) == \E i \in 1..10 : Digits[i] = c

DigitVal(c) == (CHOOSE i \in 1..10 : Digits[i] = c) - 1

\* String(n) of a non-negative integer
RECURSIVE NumToStr(_)
NumToStr(n) ==
  IF n < 10 THEN <<Digits[n + 1]>>
  ELSE NumToStr(n \div 10) \o <<Digits[(n % 10) + 1]>>

\* JavaScript numbers that are formatted or parsed: an integer, NaN or Infinity
JsInt(n) == [k |-> "int", v |-> n]
JsNaN == [k |-> "nan", v |-> 0]
JsInfinity == [k |-> "inf", v |-> 0]

\* a / b on non-negative integers whose quotient is formatted (line 132).
\* commonDivisor divides both dimensions, so a proper fraction does not arise
\* there; it is kept as its own kind so that it is never taken for an integer.
JsQuotient(a, b) ==
  IF b = 0 THEN (IF a = 0 THEN JsNaN ELSE JsInfinity)
  ELSE IF a % b = 0 THEN JsInt(a \div b)
  ELSE [k |-> "frac", v |-> a \div b]

\* `${x}` of a JavaScript number
JsNumberToString(x) ==
  CASE x.k = "int" -> NumToStr(x.v)
    [] x.k = "nan" -> <<"N", "a", "N">>
    [] x.k = "inf" -> <<"I", "n", "f", "i", "n", "i", "t", "y">>
    [] x.k = "frac" -> NumToStr(x.v) \o <<".">>

\* Number(s): a string of decimal digits is its value, the empty string is 0,
\* anything else the component can hold is NaN
RECURSIVE DigitsValue(_, _)
DigitsValue(s, acc) ==
  IF s = <<>> THEN acc ELSE DigitsValue(Tail(s), acc * 10 + DigitVal(Head(s)))

Number(s) ==
  IF \A i \in 1..Len(s) : IsDigit(s[i]) THEN JsInt(DigitsValue(s, 0)) ELSE JsNaN

\* s.split(':')
RECURSIVE SplitColon(_, _, _)
SplitColon(s, cur, acc) ==
  IF s = <<>> THEN Append(acc, cur)
  ELSE IF Head(s) = ":" THEN SplitColon(Tail(s), <<>>, Append(acc, cur))
  ELSE SplitColon(Tail(s), Append(cur, Head(s)), acc)

Split(s) == SplitColon(s, <<>>, <<>>)

\* `${w}:${h}`
RatioString(w, h) == JsNumberToString(w) \o <<":">> \o JsNumberToString(h)

Auto == <<"A", "u", "t", "o">>

\* null of a string-valued state cell.  Every use of such a cell in the code is
\* a truthiness test (!x), under which null and '' agree.
NullStr == <<>>

\* src/types.ts line 11
analyzerAspectRatios ==
  << <<"1", "6", ":", "9">>, <<"3", ":", "2">>, <<"4", ":", "3">>, <<"1", ":", "1">>,
     <<"3", ":", "4">>, <<"2", ":", "3">>, <<"9", ":", "1", "6">> >>

SeqToSet(s) == {s[i] : i \in 1..Len(s)}

\* line 144
allAspectRatios == <<Auto>> \o analyzerAspectRatios \o customRatios

\* String.prototype.trim (line 81); the white space typed into the field is the blank
IsSpace(c) == c = " "

Trim(s) ==
  LET inked == {i \in 1..Len(s) : ~IsSpace(s[i])}
  IN IF inked = {} THEN <<>>
     ELSE SubSeq(s, CHOOSE i \in inked : \A j \in inked : i <= j,
                    CHOOSE i \in inked : \A j \in inked : j <= i)

\* [1-9]\d* anchored at both ends
LeadingNonZeroDigits(t) ==
  /\ Len(t) >= 1
  /\ IsDigit(t[1]) /\ t[1] # "0"
  /\ \A i \in 2..Len(t) : IsDigit(t[i])

\* a regular expression test that accepts every string, in place of ratioRegex.test
RatioRegexAcceptsAll(s) == TRUE

\* ratioRegex.test(s), /^[1-9]\d*:[1-9]\d*$/ (lines 82, 84)
RatioRegexTest(s) ==
  \E k \in 1..Len(s) :
    /\ s[k] = ":"
    /\ LeadingNonZeroDigits(SubSeq(s, 1, k - 1))
    /\ LeadingNonZeroDigits(SubSeq(s, k + 1, Len(s)))

\* Array.prototype.includes on a list of strings (line 88)
Includes(list, x) == \E i \in 1..Len(list) : list[i] = x

\* [...new Set(ratios)] (line 75): the first occurrence of every element, in order
RECURSIVE UniqueFrom(_)
UniqueFrom(a) ==
  IF a[1] = <<>> THEN a[2]
  ELSE UniqueFrom(<<Tail(a[1]),
                    IF Includes(a[2], Head(a[1])) THEN a[2] ELSE Append(a[2], Head(a[1]))>>)

Unique(ratios) == UniqueFrom(<<ratios, <<>> >>)

\* JSON.stringify of a list of strings (line 77).  The strings of the list hold
\* digits, colons and letters only, so that no character is escaped.
RECURSIVE JsonElements(_)
JsonElements(list) ==
  IF list = <<>> THEN <<>>
  ELSE <<"\"">> \o Head(list) \o <<"\"">>
       \o (IF Tail(list) = <<>> THEN <<>> ELSE <<",">> \o JsonElements(Tail(list)))

JsonStringify(list) == <<"[">> \o JsonElements(list) \o <<"]">>

\* JSON.parse of such a text (line 64): the strings between the quotation marks
RECURSIVE JsonStrings(_)
JsonStrings(a) ==
  LET text == a[1]
      inside == a[2]
      cur == a[3]
      acc == a[4]
  IN IF text = <<>> THEN acc
     ELSE IF Head(text) = "\"" THEN
            (IF inside THEN JsonStrings(<<Tail(text), FALSE, <<>>, Append(acc, cur)>>)
             ELSE JsonStrings(<<Tail(text), TRUE, <<>>, acc>>))
     ELSE IF inside THEN JsonStrings(<<Tail(text), TRUE, Append(cur, Head(text)), acc>>)
     ELSE JsonStrings(<<Tail(text), FALSE, cur, acc>>)

JsonParse(text) == JsonStrings(<<text, FALSE, <<>>, <<>> >>)

-----------------------------------------------------------------------------
(* Geometry resolver: gcd and the auto ratio (lines 37-39, 123-134) *)

gcdNoReduce(a, b) == IF b = 0 THEN a ELSE 1

RECURSIVE gcd(_, _)
gcd(a, b) == IF b = 0 THEN a ELSE gcd(b, a % b)

\* the string stored by setAutoAspectRatio in image.onload (line 125)
OnloadAutoAspectRatio(w, h) == RatioString(JsInt(w), JsInt(h))

\* the object stored by setImageProperties in image.onload (lines 124, 127-133)
OnloadImageProperties(file) ==
  LET w == file.naturalWidth
      h == file.naturalHeight
      commonDivisor == gcd(w, h)
  IN [width |-> w, height |-> h, type |-> file.type, size |-> file.size,
      simplifiedRatio |->
        RatioString(JsQuotient(w, commonDivisor), JsQuotient(h, commonDivisor))]

\* null of an object-valued state cell (File | null, ImageProperties | null)
Null == [null |-> TRUE]

-----------------------------------------------------------------------------
(* IEEE-754 binary64 division (lines 216, 219) and the canvas size setter    *)
(* (lines 220-221)                                                           *)

Limb == 2^27

\* floor(log2 n), n >= 1
RECURSIVE Log2(_)
Log2(n) == IF n < 2 THEN 0 ELSE 1 + Log2(n \div 2)

\* two-limb naturals below 2^54
LGeq(a, b) == a[1] > b[1] \/ (a[1] = b[1] /\ a[2] >= b[2])
LSub(a, b) ==
  IF a[2] >= b[2] THEN <<a[1] - b[1], a[2] - b[2]>>
  ELSE <<a[1] - b[1] - 1, a[2] + Limb - b[2]>>
LDouble(a) ==
  IF 2 * a[2] >= Limb THEN <<2 * a[1] + 1, 2 * a[2] - Limb>> ELSE <<2 * a[1], 2 * a[2]>>
LPlus(a, bit) ==
  IF a[2] + bit >= Limb THEN <<a[1] + 1, a[2] + bit - Limb>> ELSE <<a[1], a[2] + bit>>

\* a double: finite and positive (significand <<hi, lo>> in [2^52, 2^53), value
\* significand * 2^ex), or zero, Infinity or NaN
Fin(sig, ex) == [k |-> "fin", hi |-> sig[1], lo |-> sig[2], ex |-> ex]
DZero == [k |-> "zero", hi |-> 0, lo |-> 0, ex |-> 0]
DInf == [k |-> "inf", hi |-> 0, lo |-> 0, ex |-> 0]
DNaN == [k |-> "nan", hi |-> 0, lo |-> 0, ex |-> 0]

\* the double of a JavaScript number that is an integer below 2^26, or NaN
ToDouble(x) ==
  IF x.k = "int"
  THEN IF x.v = 0 THEN DZero
       ELSE Fin(<<x.v * 2^(25 - Log2(x.v)), 0>>, Log2(x.v) - 52)
  ELSE IF x.k = "inf" THEN DInf ELSE DNaN

\* restoring division: i more quotient bits of r / m, r < 2m; st = <<q, r>>
DivStep(st, m) ==
  IF LGeq(st[2], m) THEN <<LPlus(LDouble(st[1]), 1), LDouble(LSub(st[2], m))>>
  ELSE <<LDouble(st[1]), LDouble(st[2])>>

\* x = <<st, m, i>>.  The argument is one tuple and the recursion halves i, so
\* that every intermediate value is computed before the next call is entered.
RECURSIVE DivBits(_)
DivBits(x) ==
  IF x[3] = 0 THEN x[1]
  ELSE IF x[3] = 1 THEN DivStep(x[1], x[2])
  ELSE DivBits(<<DivBits(<<x[1], x[2], x[3] \div 2>>), x[2], x[3] - x[3] \div 2>>)

\* n / d correctly rounded, n an integer in 1 .. 2^26 - 1, d finite and positive
FiniteQuotient(n, d) ==
  LET m == <<d.hi, d.lo>>
      r0 == <<n * 2^(25 - Log2(n)), 0>>
      shifted == ~LGeq(r0, m)
      r == IF shifted THEN LDouble(r0) ELSE r0
      s == (52 - Log2(n)) + (IF shifted THEN 1 ELSE 0)
      qr == DivBits(<<<<<<0, 0>>, r>>, m, 53>>)
      q == qr[1]
      rem == qr[2]
      roundUp == (LGeq(rem, m) /\ rem # m) \/ (rem = m /\ q[2] % 2 = 1)
      q1 == IF roundUp THEN LPlus(q, 1) ELSE q
      ex == 0 - 52 - s - d.ex
  IN IF q1 = <<2^26, 0>> THEN Fin(<<2^25, 0>>, ex + 1) ELSE Fin(q1, ex)

\* x / d in binary64, x a JavaScript integer or NaN, d a double
Divide(x, d) ==
  IF x.k # "int" \/ d.k = "nan" THEN DNaN
  ELSE IF x.v = 0 THEN (IF d.k = "zero" THEN DNaN ELSE DZero)
  ELSE CASE d.k = "zero" -> DInf
         [] d.k = "inf" -> DZero
         [] d.k = "fin" -> FiniteQuotient(x.v, d)

\* the integer part of a finite double below 2^31
Truncate(d) ==
  LET shift == 0 - d.ex
  IN IF shift >= 53 THEN 0
     ELSE IF shift >= 27 THEN d.hi \div 2^(shift - 27)
     ELSE d.hi * 2^(27 - shift) + d.lo \div 2^shift

\* canvas.width = x, canvas.height = x: the IDL attribute is an unsigned long, so
\* a non-finite value becomes 0 and a finite one loses its fraction
CanvasSize(d) == IF d.k = "fin" THEN Truncate(d) ELSE 0

-----------------------------------------------------------------------------
(* Exact arithmetic for the geometry: Z[sqrt 2] / 4 and rationals            *)

\* the number (p + q * sqrt 2) / 4 is <<p, q>>
ZInt(n) == <<4 * n, 0>>
ZHalf(n) == <<2 * n, 0>>
ZAdd(x, y) == <<x[1] + y[1], x[2] + y[2]>>
ZNeg(x) == <<0 - x[1], 0 - x[2]>>
ZMul(x, y) == <<(x[1] * y[1] + 2 * x[2] * y[2]) \div 4, (x[1] * y[2] + x[2] * y[1]) \div 4>>
ZAbsOmitted(x) == x

\* Math.abs of a number one of whose two parts is 0
ZAbs(x) == IF x[1] < 0 \/ x[2] < 0 THEN ZNeg(x) ELSE x

\* floor(sqrt n); x = <<n, lo, hi>> with lo^2 <= n < hi^2
RECURSIVE SqrtSearch(_)
SqrtSearch(x) ==
  IF x[3] - x[2] <= 1 THEN x[2]
  ELSE IF ((x[2] + x[3]) \div 2) * ((x[2] + x[3]) \div 2) <= x[1]
       THEN SqrtSearch(<<x[1], (x[2] + x[3]) \div 2, x[3]>>)
       ELSE SqrtSearch(<<x[1], x[2], (x[2] + x[3]) \div 2>>)

ISqrt(n) == SqrtSearch(<<n, 0, 46341>>)

\* the integer part of a non-negative number of Z[sqrt 2] / 4
ZFloor(x) == (x[1] + ISqrt(2 * x[2] * x[2])) \div 4

\* Math.cos and Math.sin of rotation * Math.PI / 180 (lines 192-194), rotation a
\* multiple of 45 degrees
Cos(deg) ==
  CASE deg = 0 -> ZInt(1)
    [] deg \in {90, -90} -> ZInt(0)
    [] deg \in {180, -180} -> ZInt(-1)
    [] deg \in {45, -45} -> <<0, 2>>
    [] deg \in {135, -135} -> <<0, -2>>

Sin(deg) ==
  CASE deg \in {0, 180, -180} -> ZInt(0)
    [] deg = 90 -> ZInt(1)
    [] deg = -90 -> ZInt(-1)
    [] deg \in {45, 135} -> <<0, 2>>
    [] deg \in {-45, -135} -> <<0, -2>>

\* Math.PI is the double just below pi, so Math.cos(Math.PI / 2) is 6.1e-17 and
\* Math.sin(Math.PI) is 1.2e-16 where the exact values are 0: by how many units of
\* 6.1e-17 |cos| and |sin| of the double angle exceed the exact value
CosExcess(deg) == IF deg \in {90, -90} THEN 1 ELSE 0
SinExcess(deg) == IF deg \in {180, -180} THEN 2 ELSE 0

\* the canvas size setter applied to a sum of exact value x and a tiny excess: a
\* sum just below an integer loses a whole pixel, one just above loses nothing
TruncateSum(x, excess) ==
  IF excess < 0 /\ x[2] = 0 /\ x[1] % 4 = 0 THEN ZFloor(x) - 1 ELSE ZFloor(x)

\* rationals <<n, d>>, d > 0, in lowest terms
RECURSIVE Hcf(_, _)
Hcf(a, b) == IF b = 0 THEN a ELSE Hcf(b, a % b)

Rat(n, d) ==
  LET g == Hcf(IF n < 0 THEN 0 - n ELSE n, d)
  IN IF g = 0 THEN <<0, 1>> ELSE <<n \div g, d \div g>>
RInt(n) == <<n, 1>>
RSub(x, y) ==
  LET g == Hcf(x[2], y[2])
  IN Rat(x[1] * (y[2] \div g) - y[1] * (x[2] \div g), (x[2] \div g) * y[2])
RAdd(x, y) ==
  LET g == Hcf(x[2], y[2])
  IN Rat(x[1] * (y[2] \div g) + y[1] * (x[2] \div g), (x[2] \div g) * y[2])
RHalf(x) == Rat(x[1], 2 * x[2])
\* x * k and x / k for an integer k >= 1
RTimes(x, k) == LET g == Hcf(k, x[2]) IN Rat(x[1] * (k \div g), x[2] \div g)
RLeq(x, y) == x[1] * y[2] <= y[1] * x[2]

-----------------------------------------------------------------------------
(* Compositor: getProcessedImageAsDataUrl, image.onload (lines 185-246)      *)

\* line 218
outputWidth == 1024

\* the size the canvas takes from rotatedWidth / rotatedHeight (lines 196-200)
RotatedSize(w, h, rot) ==
  [width |-> TruncateSum(ZAdd(ZMul(ZInt(w), ZAbs(Cos(rot))), ZMul(ZInt(h), ZAbs(Sin(rot)))),
                         w * CosExcess(rot) + h * SinExcess(rot)),
   height |-> TruncateSum(ZAdd(ZMul(ZInt(w), ZAbs(Sin(rot))), ZMul(ZInt(h), ZAbs(Cos(rot)))),
                          w * SinExcess(rot) + h * CosExcess(rot))]

\* half of rotatedWidth and of rotatedHeight, untruncated (line 204)
RotatedCentre(w, h, rot) ==
  <<ZAdd(ZMul(ZHalf(w), ZAbs(Cos(rot))), ZMul(ZHalf(h), ZAbs(Sin(rot)))),
    ZAdd(ZMul(ZHalf(w), ZAbs(Sin(rot))), ZMul(ZHalf(h), ZAbs(Cos(rot))))>>

\* 2D affine matrices [a b c d e f]: x' = a x + c y + e, y' = b x + d y + f
Identity == [a |-> ZInt(1), b |-> ZInt(0), c |-> ZInt(0), d |-> ZInt(1), e |-> ZInt(0), f |-> ZInt(0)]
MatMul(m, n) ==
  [a |-> ZAdd(ZMul(m.a, n.a), ZMul(m.c, n.b)),
   b |-> ZAdd(ZMul(m.b, n.a), ZMul(m.d, n.b)),
   c |-> ZAdd(ZMul(m.a, n.c), ZMul(m.c, n.d)),
   d |-> ZAdd(ZMul(m.b, n.c), ZMul(m.d, n.d)),
   e |-> ZAdd(ZAdd(ZMul(m.a, n.e), ZMul(m.c, n.f)), m.e),
   f |-> ZAdd(ZAdd(ZMul(m.b, n.e), ZMul(m.d, n.f)), m.f)]
TranslateMatrix(t) == [Identity EXCEPT !.e = t[1], !.f = t[2]]
RotateMatrix(rot) ==
  [Identity EXCEPT !.a = Cos(rot), !.b = Sin(rot), !.c = ZNeg(Sin(rot)), !.d = Cos(rot)]
ScaleMatrix(sx, sy) == [Identity EXCEPT !.a = ZInt(sx), !.d = ZInt(sy)]

\* ctx.translate, ctx.rotate, ctx.scale: each multiplies the current matrix on the right
CtxTranslate(ctm, t) == MatMul(ctm, TranslateMatrix(t))
CtxRotate(ctm, rot) == MatMul(ctm, RotateMatrix(rot))
CtxScale(ctm, sx, sy) == MatMul(ctm, ScaleMatrix(sx, sy))

CanvasTransformRotateLast(w, h, rot, mirrored) ==
  LET t == CtxTranslate(Identity, RotatedCentre(w, h, rot))
      m == IF mirrored THEN CtxScale(t, -1, 1) ELSE t
  IN CtxRotate(m, rot)

\* the matrix in force at tempCtx.drawImage (lines 204-208)
CanvasTransform(w, h, rot, mirrored) ==
  LET t == CtxTranslate(Identity, RotatedCentre(w, h, rot))
      r == CtxRotate(t, rot)
  IN IF mirrored THEN CtxScale(r, -1, 1) ELSE r

\* imageTransform (lines 158-163): the list of CSS transform functions of the preview
imageTransform(rot, mirrored) ==
  <<[fn |-> "rotate", arg |-> rot]>> \o
  (IF mirrored THEN <<[fn |-> "scaleX", arg |-> -1]>> ELSE <<>>)

\* the matrix of a CSS transform list: the functions multiplied in the order listed
RECURSIVE CssMatrix(_)
CssMatrix(list) ==
  IF list = <<>> THEN Identity
  ELSE MatMul(IF Head(list).fn = "rotate" THEN RotateMatrix(Head(list).arg)
              ELSE ScaleMatrix(Head(list).arg, 1),
              CssMatrix(Tail(list)))

\* generateFilterString (lines 146-156): the filter functions in their fixed order
generateFilterString(f) ==
  <<[fn |-> "brightness", arg |-> f.brightness, unit |-> "%"],
    [fn |-> "contrast", arg |-> f.contrast, unit |-> "%"],
    [fn |-> "saturate", arg |-> f.saturate, unit |-> "%"],
    [fn |-> "grayscale", arg |-> f.grayscale, unit |-> "%"],
    [fn |-> "sepia", arg |-> f.sepia, unit |-> "%"],
    [fn |-> "invert", arg |-> f.invert, unit |-> "%"],
    [fn |-> "hue-rotate", arg |-> f.hueRotate, unit |-> "deg"]>>

\* lines 26-34
initialFilterState ==
  [brightness |-> 100, contrast |-> 100, saturate |-> 100, grayscale |-> 0,
   sepia |-> 0, invert |-> 0, hueRotate |-> 0]

\* lines 215-216, 219: the numbers of the ratio string, their quotient and the height
TargetOf(effectiveAspectRatio) ==
  LET parts == Split(effectiveAspectRatio)
      ratioW == Number(parts[1])
      ratioH == IF Len(parts) >= 2 THEN Number(parts[2]) ELSE JsNaN
      targetAspectRatio == Divide(ratioW, ToDouble(ratioH))
  IN [ratioW |-> ratioW, ratioH |-> ratioH, targetAspectRatio |-> targetAspectRatio,
      outputHeight |-> Divide(JsInt(outputWidth), targetAspectRatio)]

\* lines 226-237: the source rectangle of the crop branch, bw, bh >= 1
CropRegionNoCentre(bw, bh, t) ==
  LET W == t.ratioW.v
      H == t.ratioH.v
      whole == [sx |-> RInt(0), sy |-> RInt(0), sWidth |-> RInt(bw), sHeight |-> RInt(bh)]
  IN IF t.targetAspectRatio.k = "fin" /\ bw * H > W * bh
     THEN [whole EXCEPT !.sWidth = Rat(bh * W, H), !.sx = RSub(RInt(bw), Rat(bh * W, H))]
     ELSE IF t.targetAspectRatio.k = "fin" /\ bw * H < W * bh
     THEN [whole EXCEPT !.sHeight = Rat(bw * H, W), !.sy = RSub(RInt(bh), Rat(bw * H, W))]
     ELSE whole

CropRegionLetterbox(bw, bh, t) ==
  LET W == t.ratioW.v
      H == t.ratioH.v
      whole == [sx |-> RInt(0), sy |-> RInt(0), sWidth |-> RInt(bw), sHeight |-> RInt(bh)]
  IN IF t.targetAspectRatio.k = "fin" /\ bw * H > W * bh
     THEN [whole EXCEPT !.sHeight = Rat(bw * H, W),
                        !.sy = RHalf(RSub(RInt(bh), Rat(bw * H, W)))]
     ELSE IF t.targetAspectRatio.k = "fin" /\ bw * H < W * bh
     THEN [whole EXCEPT !.sWidth = Rat(bh * W, H),
                        !.sx = RHalf(RSub(RInt(bw), Rat(bh * W, H)))]
     ELSE whole

CropRegion(bw, bh, t) ==
  LET k == t.targetAspectRatio.k
      W == t.ratioW.v
      H == t.ratioH.v
      whole == [sx |-> RInt(0), sy |-> RInt(0), sWidth |-> RInt(bw), sHeight |-> RInt(bh)]
  IN CASE k = "fin" ->
            \* imageAspectRatio > targetAspectRatio, as bw / bh > W / H
            IF bw * H > W * bh
            THEN [whole EXCEPT !.sWidth = Rat(bh * W, H),
                               !.sx = RHalf(RSub(RInt(bw), Rat(bh * W, H)))]
            ELSE IF bw * H < W * bh
            THEN [whole EXCEPT !.sHeight = Rat(bw * H, W),
                               !.sy = RHalf(RSub(RInt(bh), Rat(bw * H, W)))]
            ELSE whole
       \* targetAspectRatio = 0: the first comparison holds, sWidth = bh * 0
       [] k = "zero" -> [whole EXCEPT !.sWidth = RInt(0), !.sx = RHalf(RInt(bw))]
       \* targetAspectRatio = Infinity: the second holds, sHeight = bw / Infinity
       [] k = "inf" -> [whole EXCEPT !.sHeight = RInt(0), !.sy = RHalf(RInt(bh))]
       \* NaN compares false both ways
       [] k = "nan" -> whole

\* null of a message-valued state cell (error: string | null); no message is ''
NoMessage == ""

\* a call of the promise's resolve or reject (line 171)
Resolve(out) == [kind |-> "resolve", message |-> NoMessage, output |-> out]
Reject(msg) == [kind |-> "reject", message |-> msg, output |-> Null]

\* line 176
EffectiveAspectRatioOrDefault(selected, auto) ==
  IF selected = Auto THEN (IF auto = NullStr THEN analyzerAspectRatios[1] ELSE auto)
  ELSE selected

EffectiveAspectRatio(selected, auto) == IF selected = Auto THEN auto ELSE selected

MimeTypeOfSource(file) == file.type

\* line 241
MimeType(file) ==
  IF file.type = "image/jpeg" \/ file.type = "image/png" THEN file.type ELSE "image/png"

\* what lines 188-242 build when nothing fails: the two canvases and the draw calls
Composition(inv) ==
  LET w == inv.file.naturalWidth
      h == inv.file.naturalHeight
      tempCanvas == RotatedSize(w, h, inv.rotation)
      t == TargetOf(inv.effectiveAspectRatio)
      whole == [sx |-> RInt(0), sy |-> RInt(0),
                sWidth |-> RInt(tempCanvas.width), sHeight |-> RInt(tempCanvas.height)]
  IN [tempCanvas |-> tempCanvas,
      filter |-> generateFilterString(inv.filters),
      transform |-> CanvasTransform(w, h, inv.rotation, inv.isMirrored),
      drawAt |-> <<ZHalf(0 - w), ZHalf(0 - h)>>,
      target |-> t,
      width |-> outputWidth,
      height |-> CanvasSize(t.outputHeight),
      source |-> IF inv.resizeMode = "stretch" THEN whole
                 ELSE CropRegion(tempCanvas.width, tempCanvas.height, t),
      dest |-> [dx |-> 0, dy |-> 0, dWidth |-> outputWidth, dHeight |-> t.outputHeight],
      mimeType |-> MimeType(inv.file)]

ComposeOnloadNoReturn(inv, env) ==
  IF env = "noTempCtx"
  THEN <<Reject("Could not get temp canvas context"), Reject("TypeError")>>
  ELSE <<Resolve(Composition(inv))>>

\* image.onload of getProcessedImageAsDataUrl (lines 185-246): the calls of resolve
\* and reject it makes, in order.  env is what the browser does: "ok", no 2D context
\* for one of the canvases, or an exception thrown by a drawing call.  drawImage of
\* a canvas with a side of 0 throws InvalidStateError.
ComposeOnload(inv, env) ==
  LET tempCanvas == RotatedSize(inv.file.naturalWidth, inv.file.naturalHeight, inv.rotation)
  IN CASE env = "noTempCtx" -> <<Reject("Could not get temp canvas context")>>
       [] env = "noFinalCtx" -> <<Reject("Could not get final canvas context")>>
       [] env = "throws" -> <<Reject("drawing failed")>>
       [] env = "ok" ->
            IF tempCanvas.width = 0 \/ tempCanvas.height = 0
            THEN <<Reject("InvalidStateError")>>
            ELSE <<Resolve(Composition(inv))>>

Environments == {"ok", "noTempCtx", "noFinalCtx", "throws"}

\* a promise settles by the first call of resolve or reject; later calls do nothing
PromiseOutcome(calls) == Head(calls)

-----------------------------------------------------------------------------
(* The component *)

\* the File objects the user can pick: a JPEG of 4x2, a PNG of 1x3 and a file that
\* does not decode
Files ==
  {[name |-> "a.jpg", type |-> "image/jpeg", size |-> 8, naturalWidth |-> 4,
    naturalHeight |-> 2, decodes |-> TRUE],
   [name |-> "b.png", type |-> "image/png", size |-> 3, naturalWidth |-> 1,
    naturalHeight |-> 3, decodes |-> TRUE],
   [name |-> "c.gif", type |-> "image/gif", size |-> 1, naturalWidth |-> 0,
    naturalHeight |-> 0, decodes |-> FALSE]}

\* the ratio buttons the user presses in the component specification
ClickRatios == {Auto, analyzerAspectRatios[4]}

Init ==
  /\ selectedFile = Null
  /\ previewUrl = 0
  /\ analysis = ""
  /\ loading = FALSE
  /\ error = NoMessage
  /\ selectedAspectRatio = Auto
  /\ autoAspectRatio = NullStr
  /\ resizeMode = "crop"
  /\ imageProperties = Null
  /\ filters = initialFilterState
  /\ rotation = 0
  /\ isMirrored = FALSE
  /\ customRatios = <<>>
  /\ decodes = {}
  /\ pending = <<>>
  /\ settled = Null
  /\ service = Null
  /\ newRatio = <<>>
  /\ ratioInputError = NoMessage
  /\ storedRatios = NullStr

\* handleFileChange (lines 106-142), with a file chosen
HandleFileChange(file) ==
  /\ ~loading
  /\ previewUrl < MaxSelect
  /\ selectedFile' = file
  /\ previewUrl' = previewUrl + 1
  /\ analysis' = ""
  /\ error' = NoMessage
  /\ imageProperties' = Null
  /\ filters' = initialFilterState
  /\ rotation' = 0
  /\ isMirrored' = FALSE
  /\ decodes' = decodes \cup {[url |-> previewUrl + 1, file |-> file]}
  /\ settled' = Null
  /\ UNCHANGED ratioVars
  /\ UNCHANGED <<loading, selectedAspectRatio, autoAspectRatio, resizeMode, customRatios,
                 pending, service>>

\* image.onload of handleFileChange (lines 123-134)
ImageOnload(d) ==
  /\ d \in decodes
  /\ d.file.decodes
  /\ decodes' = decodes \ {d}
  /\ autoAspectRatio' = OnloadAutoAspectRatio(d.file.naturalWidth, d.file.naturalHeight)
  /\ selectedAspectRatio' = Auto
  /\ imageProperties' = OnloadImageProperties(d.file)
  /\ settled' = Null
  /\ UNCHANGED ratioVars
  /\ UNCHANGED <<selectedFile, previewUrl, analysis, loading, error, resizeMode, filters,
                 rotation, isMirrored, customRatios, pending, service>>

\* image.onerror of handleFileChange (lines 135-139)
ImageOnerror(d) ==
  /\ d \in decodes
  /\ ~d.file.decodes
  /\ decodes' = decodes \ {d}
  /\ autoAspectRatio' = NullStr
  /\ selectedAspectRatio' = analyzerAspectRatios[1]
  /\ imageProperties' = Null
  /\ settled' = Null
  /\ UNCHANGED ratioVars
  /\ UNCHANGED <<selectedFile, previewUrl, analysis, loading, error, resizeMode, filters,
                 rotation, isMirrored, customRatios, pending, service>>

\* a ratio button (lines 397-404): disabled while loading, Auto also without an auto ratio
SetSelectedAspectRatio(ratio) ==
  /\ previewUrl # 0
  /\ ratio \in SeqToSet(allAspectRatios)
  /\ ~(loading \/ (ratio = Auto /\ autoAspectRatio = NullStr))
  /\ selectedAspectRatio' = ratio
  /\ settled' = Null
  /\ UNCHANGED ratioVars
  /\ UNCHANGED <<selectedFile, previewUrl, analysis, loading, error, autoAspectRatio,
                 resizeMode, imageProperties, filters, rotation, isMirrored, customRatios,
                 decodes, pending, service>>

\* the resize mode buttons (lines 348-349)
SetResizeMode(mode) ==
  /\ ~loading
  /\ resizeMode' = mode
  /\ settled' = Null
  /\ UNCHANGED ratioVars
  /\ UNCHANGED <<selectedFile, previewUrl, analysis, loading, error, selectedAspectRatio,
                 autoAspectRatio, imageProperties, filters, rotation, isMirrored,
                 customRatios, decodes, pending, service>>

\* the rotation slider and its reset button (lines 360-371)
SetRotation(deg) ==
  /\ ~loading
  /\ rotation' = deg
  /\ settled' = Null
  /\ UNCHANGED ratioVars
  /\ UNCHANGED <<selectedFile, previewUrl, analysis, loading, error, selectedAspectRatio,
                 autoAspectRatio, resizeMode, imageProperties, filters, isMirrored,
                 customRatios, decodes, pending, service>>

\* the mirror button (lines 377-379)
ToggleMirrored ==
  /\ ~loading
  /\ isMirrored' = ~isMirrored
  /\ settled' = Null
  /\ UNCHANGED ratioVars
  /\ UNCHANGED <<selectedFile, previewUrl, analysis, loading, error, selectedAspectRatio,
                 autoAspectRatio, resizeMode, imageProperties, filters, rotation,
                 customRatios, decodes, pending, service>>

\* the text field of the custom ratio editor (line 485)
SetNewRatio(input) ==
  /\ newRatio' = input
  /\ ratioInputError' = NoMessage
  /\ settled' = Null
  /\ UNCHANGED <<selectedFile, previewUrl, analysis, loading, error, selectedAspectRatio,
                 autoAspectRatio, resizeMode, imageProperties, filters, rotation,
                 isMirrored, customRatios, decodes, pending, service, storedRatios>>

\* saveCustomRatios (lines 74-78)
SaveCustomRatios(ratios) ==
  /\ customRatios' = Unique(ratios)
  /\ storedRatios' = JsonStringify(Unique(ratios))

\* handleAddRatio (lines 80-96)
HandleAddRatio ==
  LET trimmedRatio == Trim(newRatio)
  IN /\ IF ~RatioRegexTest(trimmedRatio)
          THEN /\ ratioInputError' = "Invalid format. Use W:H (e.g., 5:4)."
               /\ UNCHANGED <<customRatios, storedRatios, newRatio>>
        ELSE IF Includes(analyzerAspectRatios \o customRatios \o <<Auto>>, trimmedRatio)
          THEN /\ ratioInputError' = "This aspect ratio already exists."
               /\ UNCHANGED <<customRatios, storedRatios, newRatio>>
        ELSE /\ SaveCustomRatios(Append(customRatios, trimmedRatio))
             /\ newRatio' = <<>>
             /\ ratioInputError' = NoMessage
     /\ settled' = Null
     /\ UNCHANGED <<selectedFile, previewUrl, analysis, loading, error, selectedAspectRatio,
                    autoAspectRatio, resizeMode, imageProperties, filters, rotation,
                    isMirrored, decodes, pending, service>>

\* handleRemoveRatio (lines 98-104), from the button of a listed ratio (lines 492-495)
HandleRemoveRatio(ratioToRemove) ==
  /\ Includes(customRatios, ratioToRemove)
  /\ SaveCustomRatios(SelectSeq(customRatios, LAMBDA r : r # ratioToRemove))
  /\ selectedAspectRatio' =
       IF selectedAspectRatio = ratioToRemove THEN Auto ELSE selectedAspectRatio
  /\ settled' = Null
  /\ UNCHANGED <<selectedFile, previewUrl, analysis, loading, error, autoAspectRatio,
                 resizeMode, imageProperties, filters, rotation, isMirrored, decodes,
                 pending, service, newRatio, ratioInputError>>

\* a reload of the page: the component mounts anew (initial values of lines 42-58)
\* and its effect reads the stored list back (lines 60-72).  Promises and images
\* of the page left are gone with it.
Reload ==
  /\ selectedFile' = Null
  /\ previewUrl' = 0
  /\ analysis' = ""
  /\ loading' = FALSE
  /\ error' = NoMessage
  /\ selectedAspectRatio' = Auto
  /\ autoAspectRatio' = NullStr
  /\ resizeMode' = "crop"
  /\ imageProperties' = Null
  /\ filters' = initialFilterState
  /\ rotation' = 0
  /\ isMirrored' = FALSE
  /\ customRatios' = IF storedRatios = NullStr THEN <<>> ELSE JsonParse(storedRatios)
  /\ decodes' = {}
  /\ pending' = <<>>
  /\ settled' = Null
  /\ service' = Null
  /\ newRatio' = <<>>
  /\ ratioInputError' = NoMessage
  /\ UNCHANGED storedRatios

\* getProcessedImageAsDataUrl up to image.src = previewUrl (lines 170-183): what the
\* promise closes over.  The closure is that of the render the handler was made in.
Invocation(caller) ==
  [caller |-> caller,
   file |-> selectedFile,
   previewUrl |-> previewUrl,
   selectedAspectRatio |-> selectedAspectRatio,
   autoAspectRatio |-> autoAspectRatio,
   effectiveAspectRatio |-> EffectiveAspectRatio(selectedAspectRatio, autoAspectRatio),
   rotation |-> rotation,
   isMirrored |-> isMirrored,
   resizeMode |-> resizeMode,
   filters |-> filters,
   originalError |-> IF caller = "download" THEN error ELSE NoMessage]

\* the calls of reject made before an Image is created (lines 172-180); <<>> if none
ComposeStart(inv) ==
  IF inv.file = Null \/ inv.previewUrl = 0
  THEN <<Reject("Please select an image file first.")>>
  ELSE IF inv.effectiveAspectRatio = NullStr
  THEN <<Reject("Could not determine aspect ratio. Please select one manually.")>>
  ELSE <<>>

\* a settled promise: the invocation, the event of its Image that ran ("none" if no
\* Image was created), what the browser did, and the calls of resolve and reject
Settled(inv, event, env, calls) ==
  [inv |-> inv, event |-> event, env |-> env, calls |-> calls]

\* the catch and finally blocks of handleDownload (lines 291-296)
DownloadError(inv, outcome, before) ==
  IF inv.originalError # NoMessage THEN inv.originalError
  ELSE IF outcome.kind = "reject" THEN outcome.message
  ELSE before

\* handleAnalyze (lines 252-269) up to its first await, and through its catch and
\* finally blocks when the promise is rejected at once
HandleAnalyze ==
  /\ selectedFile # Null
  /\ ~loading
  /\ Len(pending) < MaxPending
  /\ analysis' = ""
  /\ LET inv == Invocation("analyze")
         calls == ComposeStart(inv)
     IN IF calls # <<>>
        THEN /\ error' = PromiseOutcome(calls).message
             /\ loading' = FALSE
             /\ settled' = Settled(inv, "none", "ok", calls)
             /\ pending' = pending
        ELSE /\ error' = NoMessage
             /\ loading' = TRUE
             /\ pending' = Append(pending, inv)
             /\ settled' = Null
  /\ UNCHANGED ratioVars
  /\ UNCHANGED <<selectedFile, previewUrl, selectedAspectRatio, autoAspectRatio, resizeMode,
                 imageProperties, filters, rotation, isMirrored, customRatios, decodes,
                 service>>

\* handleDownload (lines 271-297) up to its await, and through its catch and finally
\* blocks when the promise is rejected at once
HandleDownload ==
  /\ selectedFile # Null
  /\ ~loading
  /\ Len(pending) < MaxPending
  /\ LET inv == Invocation("download")
         calls == ComposeStart(inv)
     IN IF calls # <<>>
        THEN /\ error' = DownloadError(inv, PromiseOutcome(calls), NoMessage)
             /\ settled' = Settled(inv, "none", "ok", calls)
             /\ pending' = pending
        ELSE /\ error' = NoMessage
             /\ pending' = Append(pending, inv)
             /\ settled' = Null
  /\ UNCHANGED ratioVars
  /\ UNCHANGED <<selectedFile, previewUrl, analysis, loading, selectedAspectRatio,
                 autoAspectRatio, resizeMode, imageProperties, filters, rotation,
                 isMirrored, customRatios, decodes, service>>

Remove(seq, i) == SubSeq(seq, 1, i - 1) \o SubSeq(seq, i + 1, Len(seq))

\* the handler that awaits the promise resumes (lines 261-268, 280-296)
Resume(inv, calls) ==
  LET outcome == PromiseOutcome(calls)
  IN IF inv.caller = "analyze"
     THEN IF outcome.kind = "resolve"
          THEN /\ service' = [mimeType |-> inv.file.type, data |-> outcome.output]
               /\ UNCHANGED <<error, loading>>
          ELSE /\ error' = outcome.message
               /\ loading' = FALSE
               /\ service' = service
     ELSE /\ error' = DownloadError(inv, outcome, error)
          /\ UNCHANGED <<loading, service>>

\* the load event of the Image of a compose promise (lines 185-246), then the handler
ComposeImageLoad(i, env) ==
  /\ i \in 1..Len(pending)
  /\ pending[i].file.decodes
  /\ LET inv == pending[i]
         calls == ComposeOnload(inv, env)
     IN /\ settled' = Settled(inv, "load", env, calls)
        /\ Resume(inv, calls)
  /\ pending' = Remove(pending, i)
  /\ UNCHANGED ratioVars
  /\ UNCHANGED <<selectedFile, previewUrl, analysis, selectedAspectRatio, autoAspectRatio,
                 resizeMode, imageProperties, filters, rotation, isMirrored, customRatios,
                 decodes>>

\* the error event of the Image of a compose promise (line 248), then the handler
ComposeImageError(i) ==
  /\ i \in 1..Len(pending)
  /\ ~pending[i].file.decodes
  /\ LET inv == pending[i]
         calls == <<Reject("Failed to load image file for processing.")>>
     IN /\ settled' = Settled(inv, "error", "ok", calls)
        /\ Resume(inv, calls)
  /\ pending' = Remove(pending, i)
  /\ UNCHANGED ratioVars
  /\ UNCHANGED <<selectedFile, previewUrl, analysis, selectedAspectRatio, autoAspectRatio,
                 resizeMode, imageProperties, filters, rotation, isMirrored, customRatios,
                 decodes>>

\* analyzeImage returns (lines 262-263, 266-267)
AnalyzeReturns ==
  /\ service # Null
  /\ analysis' = "description"
  /\ loading' = FALSE
  /\ service' = Null
  /\ settled' = Null
  /\ UNCHANGED ratioVars
  /\ UNCHANGED <<selectedFile, previewUrl, error, selectedAspectRatio, autoAspectRatio,
                 resizeMode, imageProperties, filters, rotation, isMirrored, customRatios,
                 decodes, pending>>

\* analyzeImage throws (lines 264-267; services/geminiService, lines 51-54)
AnalyzeThrows ==
  /\ service # Null
  /\ error' = "Failed to analyze image. The image might be invalid or the service is unavailable."
  /\ loading' = FALSE
  /\ service' = Null
  /\ settled' = Null
  /\ UNCHANGED ratioVars
  /\ UNCHANGED <<selectedFile, previewUrl, analysis, selectedAspectRatio, autoAspectRatio,
                 resizeMode, imageProperties, filters, rotation, isMirrored, customRatios,
                 decodes, pending>>

Next ==
  \/ \E file \in Files : HandleFileChange(file)
  \/ \E d \in decodes : ImageOnload(d)
  \/ \E d \in decodes : ImageOnerror(d)
  \/ \E ratio \in ClickRatios : SetSelectedAspectRatio(ratio)
  \/ HandleAnalyze
  \/ HandleDownload
  \/ \E i \in 1..MaxPending, env \in Environments : ComposeImageLoad(i, env)
  \/ \E i \in 1..MaxPending : ComposeImageError(i)
  \/ AnalyzeReturns
  \/ AnalyzeThrows

Spec == Init /\ [][Next]_vars

-----------------------------------------------------------------------------
(* The pipeline: one chosen file, every setting of the controls, one export  *)

\* sizes of source images beyond the small ones: a 16:9 photograph, a square, and a
\* strip whose height 1024 / (1024 / 93) is not 93 in double arithmetic
SampleSizes == {<<1920, 1080>>, <<1000, 1000>>, <<1024, 93>>}

PipelineFiles ==
  {[name |-> "p.jpg", type |-> "image/jpeg", size |-> 1, naturalWidth |-> s[1],
    naturalHeight |-> s[2], decodes |-> TRUE] :
     s \in ((0..MaxDim) \X (0..MaxDim)) \cup SampleSizes}

\* the positions of the rotation slider (lines 360-364) the pipeline is run at
Rotations == {-180, -90, 0, 45, 90, 180}

\* the ratio buttons pressed in the pipeline specification
PipelineRatios ==
  {Auto, analyzerAspectRatios[1], analyzerAspectRatios[4], analyzerAspectRatios[5]}
    \cup SeqToSet(customRatios)

\* the state handleFileChange leaves when the first file is chosen; the custom
\* ratios are those read from localStorage on mount (lines 60-72)
PipelineInit ==
  /\ selectedFile \in PipelineFiles
  /\ previewUrl = 1
  /\ analysis = ""
  /\ loading = FALSE
  /\ error = NoMessage
  /\ selectedAspectRatio = Auto
  /\ autoAspectRatio = NullStr
  /\ resizeMode = "crop"
  /\ imageProperties = Null
  /\ filters = initialFilterState
  /\ rotation = 0
  /\ isMirrored = FALSE
  /\ customRatios = <<<<"1", "0", "2", "4", ":", "9", "3">>>>
  /\ decodes = {[url |-> 1, file |-> selectedFile]}
  /\ pending = <<>>
  /\ settled = Null
  /\ service = Null
  /\ newRatio = <<>>
  /\ ratioInputError = NoMessage
  /\ storedRatios = JsonStringify(customRatios)

\* the controls are set before the one export is started, and the browser provides both
\* drawing contexts
PipelineNext ==
  \/ \E d \in decodes : ImageOnload(d)
  \/ pending = <<>> /\ \E ratio \in PipelineRatios : SetSelectedAspectRatio(ratio)
  \/ pending = <<>> /\ \E mode \in {"crop", "stretch"} : SetResizeMode(mode)
  \/ pending = <<>> /\ \E deg \in Rotations : SetRotation(deg)
  \/ pending = <<>> /\ ToggleMirrored
  \/ pending = <<>> /\ HandleDownload
  \/ ComposeImageLoad(1, "ok")

PipelineSpec == PipelineInit /\ [][PipelineNext]_vars

-----------------------------------------------------------------------------
(* The compose promise: one chosen file, exports and analyses of it          *)

\* the files of the catalogue and a WebP image of 2x2, a type canvas.toDataURL is
\* not asked for
ComposeFiles ==
  Files \cup {[name |-> "d.webp", type |-> "image/webp", size |-> 4, naturalWidth |-> 2,
               naturalHeight |-> 2, decodes |-> TRUE]}

\* the state handleFileChange leaves when the first file is chosen
ComposeInit ==
  /\ selectedFile \in ComposeFiles
  /\ previewUrl = 1
  /\ analysis = ""
  /\ loading = FALSE
  /\ error = NoMessage
  /\ selectedAspectRatio = Auto
  /\ autoAspectRatio = NullStr
  /\ resizeMode = "crop"
  /\ imageProperties = Null
  /\ filters = initialFilterState
  /\ rotation = 0
  /\ isMirrored = FALSE
  /\ customRatios = <<>>
  /\ decodes = {[url |-> 1, file |-> selectedFile]}
  /\ pending = <<>>
  /\ settled = Null
  /\ service = Null
  /\ newRatio = <<>>
  /\ ratioInputError = NoMessage
  /\ storedRatios = NullStr

ComposeNext ==
  \/ \E d \in decodes : ImageOnload(d)
  \/ \E d \in decodes : ImageOnerror(d)
  \/ \E ratio \in ClickRatios : SetSelectedAspectRatio(ratio)
  \/ HandleAnalyze
  \/ HandleDownload
  \/ \E i \in 1..MaxPending, env \in Environments : ComposeImageLoad(i, env)
  \/ \E i \in 1..MaxPending : ComposeImageError(i)
  \/ AnalyzeReturns
  \/ AnalyzeThrows

ComposeSpec == ComposeInit /\ [][ComposeNext]_vars

-----------------------------------------------------------------------------
(* The custom ratio editor: texts typed into the field, additions, removals,  *)
(* page reloads, and downloads with the ratios so obtained.                   *)

\* texts typed into the field: "5:4", " 5:4 ", "0:4", "16:9", "Auto", "1025:1", "5:"
RatioInputs ==
  { <<"5", ":", "4">>, <<" ", "5", ":", "4", " ">>, <<"0", ":", "4">>,
    analyzerAspectRatios[1], Auto, <<"1", "0", "2", "5", ":", "1">>, <<"5", ":">> }

\* one image that decodes and one that does not
RatioFiles == {f \in Files : f.type \in {"image/jpeg", "image/gif"}}

RatioInit == Init

RatioNext ==
  \/ \E file \in RatioFiles : previewUrl = 0 /\ HandleFileChange(file)
  \/ \E d \in decodes : ImageOnload(d)
  \/ \E d \in decodes : ImageOnerror(d)
  \/ \E input \in RatioInputs : SetNewRatio(input)
  \/ HandleAddRatio
  \/ \E r \in SeqToSet(customRatios) : HandleRemoveRatio(r)
  \/ \E ratio \in ClickRatios \cup SeqToSet(customRatios) : SetSelectedAspectRatio(ratio)
  \/ pending = <<>> /\ HandleDownload
  \/ \E i \in 1..MaxPending : ComposeImageLoad(i, "ok")
  \/ \E i \in 1..MaxPending : ComposeImageError(i)
  \/ Reload

RatioSpec == RatioInit /\ [][RatioNext]_vars

-----------------------------------------------------------------------------
(* Properties *)

\* the last step ran image.onload of a compose promise, which resolved it
Composed ==
  /\ settled # Null
  /\ settled.event = "load"
  /\ PromiseOutcome(settled.calls).kind = "resolve"

Output == PromiseOutcome(settled.calls).output

\* the integers W and H of the ratio string W:H a settled promise worked with
TargetW == Output.target.ratioW.v
TargetH == Output.target.ratioH.v

\* C1: when an image of w x h pixels, w, h >= 1, has decoded, the stored auto ratio
\* is the string "w:h", and the stored simplified ratio sw:sh is the same ratio in
\* lowest terms: sw * h = sh * w and sw, sh have no common divisor but 1.
C1_AutoRatioReduced ==
  (imageProperties # Null /\ imageProperties.width >= 1 /\ imageProperties.height >= 1) =>
     LET w == imageProperties.width
         h == imageProperties.height
         parts == Split(imageProperties.simplifiedRatio)
         sw == Number(parts[1])
         sh == Number(parts[2])
     IN /\ Len(parts) = 2
        /\ sw.k = "int" /\ sh.k = "int"
        /\ sw.v * h = sh.v * w
        /\ Hcf(sw.v, sh.v) = 1
        /\ autoAspectRatio = NumToStr(w) \o <<":">> \o NumToStr(h)

\* an image of 4 x 2 has decoded: the ratio is stored as 4:2 and simplified to 2:1
C1_Witness ==
  /\ imageProperties # Null
  /\ imageProperties.width = 4
  /\ imageProperties.height = 2
  /\ imageProperties.simplifiedRatio = <<"2", ":", "1">>

\* C2: a compose promise started with Auto selected, whose source image loaded,
\* worked with the ratio width:height of that source image.
C2_AutoIsRatioOfDrawnSource ==
  (settled # Null /\ settled.event = "load" /\ settled.inv.selectedAspectRatio = Auto) =>
     settled.inv.effectiveAspectRatio =
       OnloadAutoAspectRatio(settled.inv.file.naturalWidth, settled.inv.file.naturalHeight)

\* C3: an export in Stretch mode with target W:H, W, H >= 1, has a canvas of width 1024 and of
\* height 1024 * H / W (its integer part, a canvas having whole pixels), and draws
\* the whole intermediate canvas.
C3_StretchHasTargetSize ==
  (Composed /\ settled.inv.resizeMode = "stretch" /\ TargetW >= 1 /\ TargetH >= 1) =>
     /\ Output.width = 1024
     /\ Output.height = (1024 * TargetH) \div TargetW
     /\ Output.source = [sx |-> RInt(0), sy |-> RInt(0),
                         sWidth |-> RInt(Output.tempCanvas.width),
                         sHeight |-> RInt(Output.tempCanvas.height)]

\* C4: every export with target W:H, W, H >= 1, has a canvas of width 1024 whose height differs
\* from 1024 * H / W by less than one: |W * height - 1024 * H| < W.
C4_HeightWithinOneRow ==
  (Composed /\ TargetW >= 1 /\ TargetH >= 1) =>
     /\ Output.width = 1024
     /\ TargetW * Output.height - 1024 * TargetH < TargetW
     /\ 1024 * TargetH - TargetW * Output.height < TargetW

\* C5: in Crop mode the rectangle taken from the intermediate canvas has the target
\* ratio, sWidth * H = sHeight * W, and lies inside the canvas.  The rectangle is
\* computed in exact rationals here; the code's doubles are these values rounded.
C5_CropRegionFillsTarget ==
  (Composed /\ settled.inv.resizeMode = "crop") =>
     LET r == Output.source
         bw == Output.tempCanvas.width
         bh == Output.tempCanvas.height
     IN /\ RTimes(r.sWidth, TargetH) = RTimes(r.sHeight, TargetW)
        /\ RLeq(RInt(0), r.sx) /\ RLeq(RInt(0), r.sy)
        /\ RLeq(RAdd(r.sx, r.sWidth), RInt(bw))
        /\ RLeq(RAdd(r.sy, r.sHeight), RInt(bh))

\* a crop that cuts the sides off: a 4 x 2 image exported as 1:1
C5_Witness ==
  /\ Composed
  /\ settled.inv.resizeMode = "crop"
  /\ Output.tempCanvas = [width |-> 4, height |-> 2]
  /\ TargetW = 1 /\ TargetH = 1
  /\ Output.source.sWidth = RInt(2)

\* C6: the crop rectangle is one of three: a canvas wider than the target keeps its
\* height and loses equal margins left and right; a narrower one keeps its width
\* and loses equal margins top and bottom; one of the target's ratio is kept whole.
C6_CropThreeCases ==
  (Composed /\ settled.inv.resizeMode = "crop") =>
     LET r == Output.source
         bw == Output.tempCanvas.width
         bh == Output.tempCanvas.height
     IN /\ (bw * TargetH > TargetW * bh) =>
              /\ r.sHeight = RInt(bh) /\ r.sy = RInt(0)
              /\ r.sWidth = Rat(bh * TargetW, TargetH)
              /\ RTimes(r.sx, 2) = RSub(RInt(bw), r.sWidth)
        /\ (bw * TargetH < TargetW * bh) =>
              /\ r.sWidth = RInt(bw) /\ r.sx = RInt(0)
              /\ r.sHeight = Rat(bw * TargetH, TargetW)
              /\ RTimes(r.sy, 2) = RSub(RInt(bh), r.sHeight)
        /\ (bw * TargetH = TargetW * bh) =>
              r = [sx |-> RInt(0), sy |-> RInt(0), sWidth |-> RInt(bw), sHeight |-> RInt(bh)]

\* a crop that cuts top and bottom off: a 1 x 3 image exported as 1:1
C6_Witness ==
  /\ Composed
  /\ settled.inv.resizeMode = "crop"
  /\ Output.tempCanvas = [width |-> 1, height |-> 3]
  /\ TargetW = 1 /\ TargetH = 1
  /\ Output.source.sy = RInt(1)

\* C7: a compose promise started with Auto selected and no auto ratio stored is
\* rejected with the unresolved-ratio message before an Image or a canvas exists:
\* it never waits for a load event and delivers no output.
C7_UnresolvedAutoRejected ==
  /\ \A i \in 1..Len(pending) :
        ~(pending[i].selectedAspectRatio = Auto /\ pending[i].autoAspectRatio = NullStr)
  /\ (settled # Null /\ settled.inv.file # Null /\ settled.inv.selectedAspectRatio = Auto
        /\ settled.inv.autoAspectRatio = NullStr) =>
       /\ settled.event = "none"
       /\ settled.calls =
            <<Reject("Could not determine aspect ratio. Please select one manually.")>>
       /\ PromiseOutcome(settled.calls).output = Null

\* Analyze or Download pressed on a file that does not decode, before its error
\* event: Auto is still selected and no ratio is stored
C7_Witness ==
  /\ settled # Null
  /\ settled.inv.file # Null
  /\ ~settled.inv.file.decodes
  /\ settled.inv.selectedAspectRatio = Auto
  /\ settled.inv.autoAspectRatio = NullStr
  /\ error = "Could not determine aspect ratio. Please select one manually."

\* C8: for a source image with a side of 0 no auto ratio and no simplified ratio is
\* ever stored.
C8_ZeroSideStoresNoRatio ==
  (selectedFile # Null /\ (selectedFile.naturalWidth = 0 \/ selectedFile.naturalHeight = 0)) =>
     /\ autoAspectRatio = NullStr
     /\ imageProperties = Null

\* C9: a settled compose promise had exactly one call of resolve or reject.  A
\* resolve carries the output and comes only from a load event in which nothing
\* failed; a reject carries a message and no output; a missing context, an
\* exception, a load error, a missing file and an unresolved ratio each reject.
C9_SettlesOnce ==
  settled # Null =>
     LET outcome == PromiseOutcome(settled.calls)
     IN /\ Len(settled.calls) = 1
        /\ outcome.kind \in {"resolve", "reject"}
        /\ outcome.kind = "resolve" =>
              /\ outcome.output # Null
              /\ outcome.message = NoMessage
              /\ settled.event = "load" /\ settled.env = "ok"
        /\ outcome.kind = "reject" =>
              /\ outcome.output = Null
              /\ outcome.message # NoMessage
        /\ (settled.event # "load" \/ settled.env # "ok") => outcome.kind = "reject"
        /\ (settled.event = "load" /\ settled.env = "noTempCtx") =>
              outcome.message = "Could not get temp canvas context"
        /\ (settled.event = "load" /\ settled.env = "noFinalCtx") =>
              outcome.message = "Could not get final canvas context"
        /\ settled.event = "error" =>
              outcome.message = "Failed to load image file for processing."

\* the load event of a compose promise found no context for the temporary canvas
C9_Witness ==
  /\ settled # Null
  /\ settled.event = "load"
  /\ settled.env = "noTempCtx"
  /\ PromiseOutcome(settled.calls).kind = "reject"

\* C10: the matrix the source is painted with is T(centre) * R(rotation) * M, M the
\* horizontal mirror, so a point is mirrored first and rotated second; mirrored at 90
\* degrees this is not T * M * R; and the preview's CSS transform list has the same
\* linear part R * M.
C10_MirrorThenRotate ==
  Composed =>
     LET w == settled.inv.file.naturalWidth
         h == settled.inv.file.naturalHeight
         rot == settled.inv.rotation
         T == TranslateMatrix(RotatedCentre(w, h, rot))
         R == RotateMatrix(rot)
         M == IF settled.inv.isMirrored THEN ScaleMatrix(-1, 1) ELSE Identity
         css == CssMatrix(imageTransform(rot, settled.inv.isMirrored))
         ctm == Output.transform
     IN /\ ctm = MatMul(MatMul(T, R), M)
        /\ Output.drawAt = <<ZHalf(0 - w), ZHalf(0 - h)>>
        /\ (settled.inv.isMirrored /\ rot = 90) => ctm # MatMul(MatMul(T, M), R)
        /\ <<css.a, css.b, css.c, css.d>> = <<ctm.a, ctm.b, ctm.c, ctm.d>>

\* an export of a mirrored image turned by 90 degrees
C10_Witness ==
  /\ Composed
  /\ settled.inv.isMirrored
  /\ settled.inv.rotation = 90
  /\ settled.inv.file.naturalWidth = 4
  /\ settled.inv.file.naturalHeight = 2

\* C11: for a source of w x h pixels, w, h >= 1, the intermediate canvas is w x h
\* at the rotations 0, 180 and -180 and h x w at the rotations 90 and -90.
C11_BoundingBoxAtRightAngles ==
  (Composed /\ settled.inv.file.naturalWidth >= 1 /\ settled.inv.file.naturalHeight >= 1) =>
     LET w == settled.inv.file.naturalWidth
         h == settled.inv.file.naturalHeight
         rot == settled.inv.rotation
     IN /\ rot \in {0, 180, -180} => Output.tempCanvas = [width |-> w, height |-> h]
        /\ rot \in {90, -90} => Output.tempCanvas = [width |-> h, height |-> w]

\* an export of a 4 x 2 image turned by -180 degrees, where |sin| is 1.2e-16
C11_Witness ==
  /\ Composed
  /\ settled.inv.rotation = -180
  /\ settled.inv.file.naturalWidth = 4
  /\ settled.inv.file.naturalHeight = 2
  /\ Output.tempCanvas = [width |-> 4, height |-> 2]

\* the inputs of a compose promise: source image, rotation, mirror flag, filters,
\* aspect ratio selection and resize mode
Inputs(inv) ==
  <<inv.file, inv.previewUrl, inv.rotation, inv.isMirrored, inv.filters,
    inv.selectedAspectRatio, inv.resizeMode>>

\* C12: compose depends on its inputs alone: an export that has just completed
\* delivered what an export started now delivers, if the inputs are still the
\* same, whatever ran in between.
C12_OutputDependsOnInputsOnly ==
  (Composed /\ selectedFile # Null /\ Inputs(settled.inv) = Inputs(Invocation("download"))) =>
     /\ ComposeStart(Invocation("download")) = <<>>
     /\ Output = Composition(Invocation("download"))

\* C13: the output is encoded as image/jpeg for a JPEG source, as image/png for a
\* PNG source and as image/png for a source of any other type.
C13_EncodingFollowsSourceType ==
  Composed =>
     LET type == settled.inv.file.type
     IN /\ type = "image/jpeg" => Output.mimeType = "image/jpeg"
        /\ type = "image/png" => Output.mimeType = "image/png"
        /\ type \notin {"image/jpeg", "image/png"} => Output.mimeType = "image/png"

\* an export of the WebP image
C13_Witness ==
  /\ Composed
  /\ settled.inv.caller = "download"
  /\ settled.inv.file.type = "image/webp"
  /\ Output.mimeType = "image/png"

\* the string W:H of two integers W >= 1 and H >= 1 in decimal notation
PositiveRatioString(s) ==
  LET parts == Split(s)
  IN /\ Len(parts) = 2
     /\ \A i \in 1..2 :
          /\ Number(parts[i]).k = "int"
          /\ Number(parts[i]).v >= 1
          /\ NumToStr(Number(parts[i]).v) = parts[i]

\* the custom list has no duplicates, no built-in ratio and no 'Auto', and holds
\* only strings W:H with W >= 1 and H >= 1
CustomListValid ==
  /\ \A i, j \in 1..Len(customRatios) : customRatios[i] = customRatios[j] => i = j
  /\ \A i \in 1..Len(customRatios) :
       /\ ~Includes(analyzerAspectRatios \o <<Auto>>, customRatios[i])
       /\ PositiveRatioString(customRatios[i])

\* C14: handleAddRatio accepts the trimmed input exactly if it is a string W:H of
\* positive integers that is neither built in, nor in the custom list, nor 'Auto';
\* an accepted string is appended to the custom list, a rejected one leaves the
\* list and its stored copy as they were and sets an input error.  Hence the
\* custom list is valid in every state, whatever was added and removed.
C14_AddRatioValidates ==
  /\ []CustomListValid
  /\ [][HandleAddRatio =>
          LET t == Trim(newRatio)
          IN IF PositiveRatioString(t)
                /\ ~Includes(analyzerAspectRatios \o customRatios \o <<Auto>>, t)
               THEN /\ customRatios' = Append(customRatios, t)
                    /\ storedRatios' = JsonStringify(customRatios')
               ELSE /\ customRatios' = customRatios
                    /\ storedRatios' = storedRatios
                    /\ ratioInputError' # NoMessage]_vars

\* "5:4" was accepted, and typed and submitted again it was rejected as a duplicate
C14_Witness ==
  /\ Includes(customRatios, <<"5", ":", "4">>)
  /\ Trim(newRatio) = <<"5", ":", "4">>
  /\ ratioInputError = "This aspect ratio already exists."

\* C15: when the compose promise of an analyze or a download is rejected, then,
\* the handler having run its catch and finally blocks, the displayed error is the
\* message of that rejection, whatever was displayed before the operation.
C15_FailureSurfaced ==
  (settled # Null /\ PromiseOutcome(settled.calls).kind = "reject")
    => error = PromiseOutcome(settled.calls).message

\* C16: once every decode callback has fired, the stored image properties and the
\* stored auto aspect ratio are those of the file selected last: what its load
\* callback stores if it decodes, and nothing if it does not.
C16_StateDescribesLatestFile ==
  (selectedFile # Null /\ decodes = {}) =>
    IF selectedFile.decodes
      THEN /\ imageProperties = OnloadImageProperties(selectedFile)
           /\ autoAspectRatio =
                OnloadAutoAspectRatio(selectedFile.naturalWidth, selectedFile.naturalHeight)
      ELSE /\ imageProperties = Null
           /\ autoAspectRatio = NullStr

\* C17: whenever a file is selected, its decode callback has fired and 'Auto' is
\* the selected aspect ratio, the auto aspect ratio is available.
C17_AutoSelectedIsResolved ==
  (selectedFile # Null /\ decodes = {} /\ selectedAspectRatio = Auto)
    => autoAspectRatio # NullStr

\* C18: the output canvas of a successful compose invocation is 1024 pixels wide
\* and at least 1 pixel high, whichever ratio is the effective target: the one
\* derived from a decoded image, a built-in one, or a custom one that
\* handleAddRatio accepted.
C18_OutputNotEmpty ==
  Composed => (Output.width = outputWidth /\ Output.height >= 1)

\* C19: the MIME type handed to the analysis service with the encoded image is the
\* MIME type the image was encoded with, for every type of source file.
C19_ServiceTypeIsEncoding ==
  service # Null => service.mimeType = service.data.mimeType

====
